---- MODULE Spec2Model ----
(***************************************************************************)
(* The tape / gradient subsystem of dfdx: tape holders (NoTape, WithTape), *)
(* trace / traced, the differentiable operation sum_last_dim and the       *)
(* backward replay of a GradientTape into a Gradients store; and the shape *)
(* typing of the Upscale2D / Upscale2DBy modules.                          *)
(*                                                                         *)
(* f32 values are modelled as exact rationals <<n, d>> in lowest terms     *)
(* (rounding is not modelled).  A tensor's data is kept flat, row-major,   *)
(* beside its shape (the sequence of its dimensions).                      *)
(***************************************************************************)
EXTENDS Integers, Sequences, FiniteSets, TLC

VARIABLES
    tensors,    \* the live tensor values: records [id, shape, data, tape]
    nextId,     \* the next TensorId a tensor allocation mints
    nextBox,    \* the next address of a Box<GradientTape> allocation
    calls,      \* history: box -> the closures passed to add_operation, in call order
    gradients,  \* the Gradients store of the latest backward (id -> buffer)
    replay,     \* the latest GradientTape::execute: [box, log, rest]
    lookup,     \* the latest ref_gradient: [id, value]
    img,        \* the input of an upscale module: [shape, tape]
    out         \* the result of the module's try_forward

vars == <<tensors, nextId, nextBox, calls, gradients, replay, lookup, img, out>>

tapeVars == <<tensors, nextId, nextBox, calls, gradients, replay, lookup>>

upscaleVars == <<img, out>>

---------------------------------------------------------------------------
(* Bounds of the model. *)

MaxDim == 3

MaxAllocs == 5

MaxFactor == 2

MaxTarget == 4

Bases == {2}

Steps == {-1, 1}

---------------------------------------------------------------------------
(* Exact arithmetic standing for f32. *)

Abs(n) == IF n < 0 THEN -n ELSE n

RECURSIVE GCD(_, _)
GCD(a, b) == IF b = 0 THEN a ELSE GCD(b, a % b)

Norm(n, d) ==
    LET g == GCD(Abs(n), d)
    IN  <<n \div g, d \div g>>

RInt(k) == <<k, 1>>

Zero == RInt(0)

One == RInt(1)

RAdd(a, b) == Norm(a[1] * b[2] + b[1] * a[2], a[2] * b[2])

RDivN(a, n) == Norm(a[1], a[2] * n)

---------------------------------------------------------------------------
(* Shapes and buffers. *)

RECURSIVE NumElems(_)
NumElems(shape) ==
    IF shape = <<>> THEN 1 ELSE shape[1] * NumElems(Tail(shape))

LastDim(shape) == IF shape = <<>> THEN 1 ELSE shape[Len(shape)]

LastDimReduced(shape) ==
    IF shape = <<>> THEN <<>> ELSE SubSeq(shape, 1, Len(shape) - 1)

Zeros(shape) == [i \in 1..NumElems(shape) |-> Zero]

Shapes ==
    {<<>>} \cup {<<l>> : l \in 2..MaxDim} \cup {<<2, l>> : l \in 2..MaxDim}
        \cup {<<2, 2, l>> : l \in 2..MaxDim}

Inputs(shape) ==
    {[i \in 1..NumElems(shape) |-> RInt(a + b * (i - 1))] : a \in Bases, b \in Steps}

---------------------------------------------------------------------------
(* Tape holders. *)

NoTape == [kind |-> "NoTape"]

GradientTape_default == <<>>

WithTape_default(box) ==
    [kind |-> "WithTape", box |-> box, ops |-> GradientTape_default]

GradientTape_add_operation(ops, operation) == Append(ops, operation)

\* Faulty variants of WithTape::add_operation: the closure is dropped; it is put first.
WithTape_add_operation_dropped(holder, operation) == holder

WithTape_add_operation_prepend(holder, operation) ==
    [holder EXCEPT !.ops = <<operation>> \o holder.ops]

WithTape_add_operation(holder, operation) ==
    [holder EXCEPT !.ops = GradientTape_add_operation(holder.ops, operation)]

\* Faulty variant of NoTape::add_operation: the closure is kept.
NoTape_add_operation_records(holder, operation) ==
    [kind |-> "WithTape", box |-> 0, ops |-> <<operation>>]

NoTape_add_operation(holder, operation) == holder

add_operation(holder, operation) ==
    IF holder.kind = "WithTape"
    THEN WithTape_add_operation(holder, operation)
    ELSE NoTape_add_operation(holder, operation)

IsWithTape(t) == t.tape.kind = "WithTape"

---------------------------------------------------------------------------
(* trace / traced. *)

trace(self, box) ==
    [id |-> self.id, shape |-> self.shape, data |-> self.data,
     tape |-> WithTape_default(box)]

traced(self, box) ==
    [id |-> self.id, shape |-> self.shape, data |-> self.data,
     tape |-> WithTape_default(box)]

---------------------------------------------------------------------------
(* The Gradients store. *)

Gradients_default == <<>>

get_or_zero(grads, id, shape) ==
    IF id \in DOMAIN grads THEN grads ELSE grads @@ (id :> Zeros(shape))

mut_and_ref(grads, l, lshape, r, rshape) ==
    get_or_zero(get_or_zero(grads, r, rshape), l, lshape)

Absent == <<"absent">>

\* Faulty variant of ref_gradient: a missing entry is unwrapped.
ref_gradient_unwrap(grads, id) ==
    IF id \in DOMAIN grads THEN grads[id] ELSE <<"panic">>

ref_gradient(grads, id) ==
    IF id \in DOMAIN grads THEN grads[id] ELSE Absent

NoLookup == [id |-> 0, value |-> Absent]

---------------------------------------------------------------------------
(* sum_last_dim. *)

RECURSIVE fold(_, _, _, _)
fold(data, from, n, acc) ==
    IF n = 0 THEN acc ELSE fold(data, from + 1, n - 1, RAdd(acc, data[from]))

reduce_last_dim(shape, data) ==
    IF shape = <<>>
    THEN data
    ELSE LET l == LastDim(shape)
         IN  [k \in 1..NumElems(LastDimReduced(shape)) |->
                 fold(data, (k - 1) * l + 2, l - 1, data[(k - 1) * l + 1])]

Broadcast(buf, shape) ==
    [i \in 1..NumElems(shape) |-> buf[((i - 1) \div LastDim(shape)) + 1]]

badd(lhs, rhs) == [i \in 1..Len(lhs) |-> RAdd(lhs[i], rhs[i])]

new_boxed(id, shape, data) ==
    [id |-> id, shape |-> shape, data |-> data, tape |-> NoTape]

SumLastOp(t, result) ==
    [kind |-> "sum_last_dim", t |-> t.id, tshape |-> t.shape,
     r |-> result.id, rshape |-> result.shape, lhs |-> 0]

\* Faulty variants of the backward closure: it overwrites; it divides by the reduced length.
SumLastBackward_overwrite(op, grads) ==
    LET g == mut_and_ref(grads, op.t, op.tshape, op.r, op.rshape)
    IN  [g EXCEPT ![op.t] = Broadcast(g[op.r], op.tshape)]

SumLastBackward_normalised(op, grads) ==
    LET g == mut_and_ref(grads, op.t, op.tshape, op.r, op.rshape)
        b == Broadcast(g[op.r], op.tshape)
    IN  [g EXCEPT ![op.t] =
            badd(g[op.t], [i \in 1..Len(b) |-> RDivN(b[i], LastDim(op.tshape))])]

SumLastBackward(op, grads) ==
    LET g == mut_and_ref(grads, op.t, op.tshape, op.r, op.rshape)
    IN  [g EXCEPT ![op.t] = badd(g[op.t], Broadcast(g[op.r], op.tshape))]

move_tape_and_add_backward_op(t, result, op) ==
    [result EXCEPT !.tape = add_operation(t.tape, op)]

\* Faulty variant of sum_last_dim: the result takes the input's id.
sum_last_dim_same_id(t, fresh) ==
    LET result == new_boxed(t.id, LastDimReduced(t.shape),
                            reduce_last_dim(t.shape, t.data))
    IN  move_tape_and_add_backward_op(t, result, SumLastOp(t, result))

sum_last_dim(t, fresh) ==
    LET result == new_boxed(fresh, LastDimReduced(t.shape),
                            reduce_last_dim(t.shape, t.data))
    IN  move_tape_and_add_backward_op(t, result, SumLastOp(t, result))

---------------------------------------------------------------------------
(* mean and add: the other operations the additivity and round-trip        *)
(* properties are stated with.                                             *)

MeanOp(t, result) ==
    [kind |-> "mean", t |-> t.id, tshape |-> t.shape,
     r |-> result.id, rshape |-> result.shape, lhs |-> 0]

MeanBackward(op, grads) ==
    LET g == mut_and_ref(grads, op.t, op.tshape, op.r, op.rshape)
        n == NumElems(op.tshape)
    IN  [g EXCEPT ![op.t] = [i \in 1..n |-> RAdd(g[op.t][i], RDivN(g[op.r][1], n))]]

mean(t, fresh) ==
    LET n == NumElems(t.shape)
        result == new_boxed(fresh, <<>>, <<RDivN(fold(t.data, 2, n - 1, t.data[1]), n)>>)
    IN  move_tape_and_add_backward_op(t, result, MeanOp(t, result))

AddOp(lhs, rhs, result) ==
    [kind |-> "add", t |-> rhs.id, tshape |-> rhs.shape,
     r |-> result.id, rshape |-> result.shape, lhs |-> lhs.id]

AddBackward(op, grads) ==
    LET g1 == mut_and_ref(grads, op.lhs, op.tshape, op.r, op.rshape)
        g2 == [g1 EXCEPT ![op.lhs] = badd(g1[op.lhs], g1[op.r])]
        g3 == mut_and_ref(g2, op.t, op.tshape, op.r, op.rshape)
    IN  [g3 EXCEPT ![op.t] = badd(g3[op.t], g3[op.r])]

add(lhs, rhs, fresh) ==
    LET result == new_boxed(fresh, rhs.shape, badd(lhs.data, rhs.data))
    IN  move_tape_and_add_backward_op(rhs, result, AddOp(lhs, rhs, result))

---------------------------------------------------------------------------
(* GradientTape::execute and backward. *)

RunClosure(op, grads) ==
    CASE op.kind = "sum_last_dim" -> SumLastBackward(op, grads)
      [] op.kind = "mean" -> MeanBackward(op, grads)
      [] op.kind = "add" -> AddBackward(op, grads)

RECURSIVE execute(_, _, _)
execute(ops, grads, log) ==
    IF ops = <<>>
    THEN [grads |-> grads, log |-> log, rest |-> ops]
    ELSE LET operation == ops[Len(ops)]
         IN  execute(SubSeq(ops, 1, Len(ops) - 1), RunClosure(operation, grads),
                     Append(log, operation))

Seed(t) == [get_or_zero(Gradients_default, t.id, t.shape) EXCEPT ![t.id] = <<One>>]

backward(t) == execute(t.tape.ops, Seed(t), <<>>)

---------------------------------------------------------------------------
(* The operations a caller can perform on the live tensors. *)

NoReplay == [box |-> 0, seed |-> 0, log |-> <<>>, rest |-> <<>>]

Allocs == (nextId - 1) + (nextBox - 1)

Record(t, op) ==
    IF IsWithTape(t)
    THEN [calls EXCEPT ![t.tape.box] = Append(@, op)]
    ELSE calls

\* Faulty variant of trace: it takes the tensor by value, as traced does.
TraceConsumes(self) ==
    /\ self.tape = NoTape
    /\ Allocs < MaxAllocs
    /\ tensors' = (tensors \ {self}) \cup {trace(self, nextBox)}
    /\ nextBox' = nextBox + 1
    /\ calls' = calls @@ (nextBox :> <<>>)
    /\ UNCHANGED <<nextId, gradients, replay>>
    /\ lookup' = NoLookup
    /\ UNCHANGED upscaleVars

Trace(self) ==
    /\ self.tape = NoTape
    /\ Allocs < MaxAllocs
    /\ tensors' = tensors \cup {trace(self, nextBox)}
    /\ nextBox' = nextBox + 1
    /\ calls' = calls @@ (nextBox :> <<>>)
    /\ UNCHANGED <<nextId, gradients, replay>>
    /\ lookup' = NoLookup
    /\ UNCHANGED upscaleVars

\* Faulty variant of sum_last_dim: the input stays alive, with its tape.
SumLastDimKeepsInput(t) ==
    /\ Allocs < MaxAllocs
    /\ LET result == sum_last_dim(t, nextId)
       IN  /\ tensors' = tensors \cup {result}
           /\ calls' = Record(t, SumLastOp(t, result))
    /\ nextId' = nextId + 1
    /\ UNCHANGED <<nextBox, gradients, replay>>
    /\ lookup' = NoLookup
    /\ UNCHANGED upscaleVars

SumLastDim(t) ==
    /\ Allocs < MaxAllocs
    /\ LET result == sum_last_dim(t, nextId)
       IN  /\ tensors' = (tensors \ {t}) \cup {result}
           /\ calls' = Record(t, SumLastOp(t, result))
    /\ nextId' = nextId + 1
    /\ UNCHANGED <<nextBox, gradients, replay>>
    /\ lookup' = NoLookup
    /\ UNCHANGED upscaleVars

Traced(self) ==
    /\ self.tape = NoTape
    /\ Allocs < MaxAllocs
    /\ tensors' = (tensors \ {self}) \cup {traced(self, nextBox)}
    /\ nextBox' = nextBox + 1
    /\ calls' = calls @@ (nextBox :> <<>>)
    /\ UNCHANGED <<nextId, gradients, replay>>
    /\ lookup' = NoLookup
    /\ UNCHANGED upscaleVars

Mean(t) ==
    /\ Allocs < MaxAllocs
    /\ LET result == mean(t, nextId)
       IN  /\ tensors' = (tensors \ {t}) \cup {result}
           /\ calls' = Record(t, MeanOp(t, result))
    /\ nextId' = nextId + 1
    /\ UNCHANGED <<nextBox, gradients, replay>>
    /\ lookup' = NoLookup
    /\ UNCHANGED upscaleVars

Add(lhs, rhs) ==
    /\ Allocs < MaxAllocs
    /\ lhs.tape = NoTape
    /\ lhs.shape = rhs.shape
    /\ LET result == add(lhs, rhs, nextId)
       IN  /\ tensors' = (tensors \ {rhs}) \cup {result}
           /\ calls' = Record(rhs, AddOp(lhs, rhs, result))
    /\ nextId' = nextId + 1
    /\ UNCHANGED <<nextBox, gradients, replay>>
    /\ lookup' = NoLookup
    /\ UNCHANGED upscaleVars

Backward(t) ==
    /\ IsWithTape(t)
    /\ t.shape = <<>>
    /\ LET done == backward(t)
       IN  /\ gradients' = done.grads
           /\ replay' = [box |-> t.tape.box, seed |-> t.id, log |-> done.log,
                          rest |-> done.rest]
    /\ tensors' = tensors \ {t}
    /\ UNCHANGED <<nextId, nextBox, calls>>
    /\ lookup' = NoLookup
    /\ UNCHANGED upscaleVars

\* The reference ref_gradient returns is held until the next operation.
RefGradient(t) ==
    /\ lookup' = [id |-> t.id, value |-> ref_gradient(gradients, t.id)]
    /\ UNCHANGED <<tensors, nextId, nextBox, calls, gradients, replay>>
    /\ UNCHANGED upscaleVars

TapeInit ==
    /\ \E shape \in Shapes : \E data \in Inputs(shape) :
           tensors = {new_boxed(1, shape, data)}
    /\ nextId = 2
    /\ nextBox = 1
    /\ calls = <<>>
    /\ gradients = Gradients_default
    /\ replay = NoReplay
    /\ lookup = NoLookup

---------------------------------------------------------------------------
(* Upscale2D and Upscale2DBy: the types of the modules and of their        *)
(* forward results.  A tensor type is [shape, tape]; the const parameters  *)
(* a module is written with are the sequence args (one or two numbers),    *)
(* the omitted second one taking its default.                              *)

Methods == {"NearestNeighbor", "Bilinear"}

Upscale2D(args, method) ==
    [name |-> "Upscale2D", args |-> args, method |-> method,
     OH |-> args[1], OW |-> IF Len(args) = 2 THEN args[2] ELSE args[1]]

Upscale2DBy(args, method) ==
    [name |-> "Upscale2DBy", args |-> args, method |-> method,
     H |-> args[1], W |-> IF Len(args) = 2 THEN args[2] ELSE args[1]]

ConstUpscale2D_Output(x, OH, OW) ==
    [shape |-> SubSeq(x.shape, 1, Len(x.shape) - 2) \o <<OH, OW>>, tape |-> x.tape]

Upscale2D_Output(self, x) == ConstUpscale2D_Output(x, self.OH, self.OW)

\* Faulty variant of Upscale2DBy's output type: the height factor scales the width too.
Upscale2DBy_Output3_one_factor(self, x) ==
    [shape |-> <<x.shape[1], x.shape[2] * self.H, x.shape[3] * self.H>>,
     tape |-> x.tape]

Upscale2DBy_Output3(self, x) ==
    [shape |-> <<x.shape[1], x.shape[2] * self.H, x.shape[3] * self.W>>,
     tape |-> x.tape]

Upscale2DBy_Output4(self, x) ==
    [shape |-> <<x.shape[1], x.shape[2], x.shape[3] * self.H, x.shape[4] * self.W>>,
     tape |-> x.tape]

Err == [shape |-> <<>>, tape |-> "Err"]

try_upscale2d(output) == {[ok |-> TRUE, value |-> output], [ok |-> FALSE, value |-> Err]}

Upscale2D_try_forward(self, x) == try_upscale2d(Upscale2D_Output(self, x))

Upscale2DBy_try_forward3(self, x) == try_upscale2d(Upscale2DBy_Output3(self, x))

Upscale2DBy_try_forward4(self, x) == try_upscale2d(Upscale2DBy_Output4(self, x))

NoImage == [shape |-> <<>>, tape |-> "NoTape"]

NoModule == [name |-> "none", args |-> <<>>, method |-> "none"]

NoOutput == [module |-> NoModule, result |-> [ok |-> FALSE, value |-> Err]]

Images ==
    [shape : [1..3 -> 1..MaxDim] \cup [1..4 -> 1..MaxDim],
     tape : {"NoTape", "OwnedTape"}]

Args(max) == [1..1 -> 1..max] \cup [1..2 -> 1..max]

\* try_forward takes x by value: one forward per input.
ForwardUpscale2D(args, method) ==
    /\ out = NoOutput
    /\ \E r \in Upscale2D_try_forward(Upscale2D(args, method), img) :
           out' = [module |-> Upscale2D(args, method), result |-> r]
    /\ UNCHANGED img
    /\ UNCHANGED tapeVars

ForwardUpscale2DBy3(args, method) ==
    /\ out = NoOutput
    /\ Len(img.shape) = 3
    /\ \E r \in Upscale2DBy_try_forward3(Upscale2DBy(args, method), img) :
           out' = [module |-> Upscale2DBy(args, method), result |-> r]
    /\ UNCHANGED img
    /\ UNCHANGED tapeVars

ForwardUpscale2DBy4(args, method) ==
    /\ out = NoOutput
    /\ Len(img.shape) = 4
    /\ \E r \in Upscale2DBy_try_forward4(Upscale2DBy(args, method), img) :
           out' = [module |-> Upscale2DBy(args, method), result |-> r]
    /\ UNCHANGED img
    /\ UNCHANGED tapeVars

---------------------------------------------------------------------------
(* Specifications. *)

Init ==
    /\ TapeInit
    /\ img = NoImage
    /\ out = NoOutput

Next ==
    \/ \E t \in tensors : Trace(t)
    \/ \E t \in tensors : Traced(t)
    \/ \E t \in tensors : SumLastDim(t)
    \/ \E t \in tensors : Mean(t)
    \/ \E lhs, rhs \in tensors : Add(lhs, rhs)
    \/ \E t \in tensors : Backward(t)
    \/ \E t \in tensors : RefGradient(t)

Spec == Init /\ [][Next]_vars

InitUpscale ==
    /\ tensors = {}
    /\ nextId = 1
    /\ nextBox = 1
    /\ calls = <<>>
    /\ gradients = Gradients_default
    /\ replay = NoReplay
    /\ lookup = NoLookup
    /\ img \in Images
    /\ out = NoOutput

NextUpscale ==
    \/ \E args \in Args(MaxTarget), m \in Methods : ForwardUpscale2D(args, m)
    \/ \E args \in Args(MaxFactor), m \in Methods : ForwardUpscale2DBy3(args, m)
    \/ \E args \in Args(MaxFactor), m \in Methods : ForwardUpscale2DBy4(args, m)

SpecUpscale == InitUpscale /\ [][NextUpscale]_vars

---------------------------------------------------------------------------
(* Properties. *)

Reverse(s) == [i \in 1..Len(s) |-> s[Len(s) + 1 - i]]

LastOp(t) == t.tape.ops[Len(t.tape.ops)]

RECURSIVE Sum(_, _, _)
Sum(data, lo, hi) ==
    IF lo > hi THEN Zero ELSE RAdd(Sum(data, lo, hi - 1), data[hi])

\* The ids that took part in the computation the latest backward replayed.
Participated ==
    {replay.seed} \cup {replay.log[i].t : i \in DOMAIN replay.log}
        \cup {replay.log[i].r : i \in DOMAIN replay.log}
        \cup {replay.log[i].lhs : i \in DOMAIN replay.log}

\* C1: a backward pass runs every closure registered on the tape exactly
\* once, last registered first (so result ids decrease along the replay),
\* and leaves the tape without entries.
C1_ReverseReplay ==
    replay.box # 0 =>
        /\ replay.log = Reverse(calls[replay.box])
        /\ replay.rest = <<>>
        /\ \A i, j \in DOMAIN replay.log : i < j => replay.log[i].r > replay.log[j].r

C1_Witness == replay.box # 0 /\ Len(replay.log) >= 2

\* What the closures of the replay add to the buffer of id x, stated with the
\* gradients the replay ends with.
RECURSIVE Contributions(_, _, _)
Contributions(log, x, shape) ==
    IF log = <<>>
    THEN Zeros(shape)
    ELSE LET op == Head(log)
             g == gradients[op.r]
             n == NumElems(shape)
             fromT ==
                 IF op.t # x THEN Zeros(shape)
                 ELSE CASE op.kind = "sum_last_dim" ->
                               [i \in 1..n |-> g[((i - 1) \div LastDim(shape)) + 1]]
                        [] op.kind = "mean" -> [i \in 1..n |-> RDivN(g[1], n)]
                        [] op.kind = "add" -> g
             fromLhs == IF op.lhs # x THEN Zeros(shape) ELSE g
             rest == Contributions(Tail(log), x, shape)
         IN  [i \in 1..n |-> RAdd(RAdd(fromT[i], fromLhs[i]), rest[i])]

ShapeOf(x) ==
    LET i == CHOOSE i \in DOMAIN replay.log :
                 x \in {replay.log[i].t, replay.log[i].r, replay.log[i].lhs}
    IN  IF replay.log[i].r = x THEN replay.log[i].rshape ELSE replay.log[i].tshape

\* C2: after a backward pass the gradient of every id is the seed (1 for the
\* tensor backward was called on, 0 otherwise) plus the sum of what each
\* closure targeting that id contributes: contributions add up, none is lost.
C2_Additive ==
    replay.box # 0 =>
        \A x \in DOMAIN gradients :
            IF x = replay.seed /\ \A i \in DOMAIN replay.log : replay.log[i].r # x
            THEN gradients[x] = <<One>>
            ELSE gradients[x] =
                     [i \in 1..NumElems(ShapeOf(x)) |->
                         RAdd(IF x = replay.seed THEN One ELSE Zero,
                              Contributions(replay.log, x, ShapeOf(x))[i])]

C2_Witness ==
    /\ replay.box # 0
    /\ \E i, j \in DOMAIN replay.log :
           /\ replay.log[i].kind = "sum_last_dim"
           /\ replay.log[j].kind = "add"
           /\ replay.log[j].lhs = replay.log[i].t
           /\ replay.log[j].t = replay.log[i].r
           /\ gradients[replay.log[i].t] = <<RInt(2)>>

\* C3: an operation on a NoTape tensor gives a NoTape tensor, runs no closure
\* and touches no gradient; while no tensor has been traced there is no tape
\* entry, no replay, and every gradient lookup is absent.
C3_NoTapePurity ==
    [][/\ (nextId' # nextId /\ calls' = calls) =>
              /\ \A r \in tensors' \ tensors : r.tape = NoTape
              /\ gradients' = gradients
              /\ replay' = replay
       /\ nextBox' = 1 =>
              /\ \A t \in tensors' : t.tape = NoTape
              /\ gradients' = Gradients_default
              /\ replay' = NoReplay
              /\ lookup'.value = Absent]_vars

C3_Witness == nextBox = 1 /\ nextId >= 4 /\ lookup.id >= 3

\* C4: a call of add_operation on a WithTape holder puts the closure at the
\* end of the tape, keeps the entries before it, runs nothing and leaves the
\* gradients as they were.
C4_AppendOnly ==
    [][\A b \in DOMAIN calls :
           calls'[b] # calls[b] =>
               \E t \in tensors, r \in tensors' :
                   /\ IsWithTape(t) /\ t.tape.box = b
                   /\ IsWithTape(r) /\ r.tape.box = b
                   /\ r.tape.ops = Append(t.tape.ops, calls'[b][Len(calls'[b])])
                   /\ gradients' = gradients
                   /\ replay' = replay]_vars

C4_Witness == \E t \in tensors : IsWithTape(t) /\ Len(t.tape.ops) >= 3

\* C5: trace leaves the original tensor and every other tensor as they are
\* and adds a tensor with the same id, shape and data and an empty tape of
\* its own; of two tapes each holds the closures recorded through its own
\* tensor, and they never hold a common closure.
C5_TraceIndependent ==
    [][/\ \A self \in tensors :
              Trace(self) =>
                  /\ tensors \subseteq tensors'
                  /\ \E r \in tensors' \ tensors :
                         /\ tensors' = tensors \cup {r}
                         /\ r.id = self.id
                         /\ r.shape = self.shape
                         /\ r.data = self.data
                         /\ IsWithTape(r)
                         /\ r.tape.ops = <<>>
                         /\ \A t \in tensors : IsWithTape(t) => t.tape.box # r.tape.box
       /\ \A t1, t2 \in tensors' :
              (IsWithTape(t1) /\ IsWithTape(t2) /\ t1 # t2) =>
                  /\ t1.tape.ops = calls'[t1.tape.box]
                  /\ t2.tape.ops = calls'[t2.tape.box]
                  /\ \A i \in DOMAIN t1.tape.ops, j \in DOMAIN t2.tape.ops :
                         t1.tape.ops[i] # t2.tape.ops[j]]_vars

C5_Witness ==
    \E t1, t2 \in tensors :
        /\ IsWithTape(t1) /\ IsWithTape(t2)
        /\ t1.tape.box # t2.tape.box
        /\ t1.tape.ops # <<>> /\ t2.tape.ops # <<>>
        /\ t1.tape.ops[1].t = t2.tape.ops[1].t

\* C6: the result of sum_last_dim holds the sums of the input along its last
\* dimension; its closure gives an input position (starting from zero) the
\* gradient of the result position it was summed into, undivided; and
\* backpropagating mean(sum_last_dim(t)) gives every input position
\* 1 / (number of result elements).
C6_SumLastDim ==
    /\ \A r \in tensors :
           (IsWithTape(r) /\ r.tape.ops # <<>>) =>
               LET op == LastOp(r)
                   l == LastDim(op.tshape)
               IN  (op.kind = "sum_last_dim" /\ op.tshape # <<>>) =>
                       /\ r.shape = SubSeq(op.tshape, 1, Len(op.tshape) - 1)
                       /\ Len(r.data) * l = NumElems(op.tshape)
                       /\ \A t \in tensors :
                              (t.id = op.t /\ t.tape = NoTape) =>
                                  \A k \in 1..Len(r.data) :
                                      r.data[k] = Sum(t.data, (k - 1) * l + 1, k * l)
    /\ \A i \in DOMAIN replay.log :
           LET op == replay.log[i]
           IN  (/\ op.kind = "sum_last_dim"
                /\ op.t # replay.seed
                /\ \A j \in DOMAIN replay.log :
                       j # i => (replay.log[j].t # op.t /\ replay.log[j].lhs # op.t)) =>
                   \A p \in 1..NumElems(op.tshape) :
                       gradients[op.t][p] =
                           gradients[op.r][((p - 1) \div LastDim(op.tshape)) + 1]
    /\ (/\ replay.box # 0
        /\ Len(replay.log) = 2
        /\ replay.log[1].kind = "mean"
        /\ replay.log[2].kind = "sum_last_dim"
        /\ replay.log[2].tshape # <<>>) =>
           gradients[replay.log[2].t] =
               [i \in 1..NumElems(replay.log[2].tshape) |->
                   <<1, NumElems(replay.log[2].rshape)>>]

C6_Witness ==
    /\ replay.box # 0
    /\ Len(replay.log) = 2
    /\ replay.log[1].kind = "mean"
    /\ replay.log[2].kind = "sum_last_dim"
    /\ replay.log[2].tshape = <<2, 3>>
    /\ gradients[replay.log[2].t] = [i \in 1..6 |-> <<1, 2>>]

C8_UpscaleShapeLaw ==
    (out.result.ok /\ Len(img.shape) = 3) =>
        LET a == out.module.args
            first == a[1]
            second == IF Len(a) = 2 THEN a[2] ELSE a[1]
            got == out.result.value
        IN  /\ out.module.name = "Upscale2D" =>
                   got.shape = <<img.shape[1], first, second>>
            /\ out.module.name = "Upscale2DBy" =>
                   got.shape = <<img.shape[1], img.shape[2] * first, img.shape[3] * second>>
            /\ got.tape = img.tape

C8_Witness ==
    /\ out.result.ok
    /\ out.module.name = "Upscale2DBy"
    /\ out.module.args = <<2>>
    /\ img.shape = <<2, 3, 1>>
    /\ out.result.value.shape = <<2, 6, 2>>

\* C9: after a backward pass, looking up the gradient of a tensor whose id
\* took no part in the replayed computation gives the absent result, and the
\* lookup leaves the store as it was.
C9_MissingLookup ==
    [][\A t \in tensors :
           RefGradient(t) =>
               /\ gradients' = gradients
               /\ (replay.box # 0 /\ t.id \notin Participated) =>
                      lookup'.value = Absent]_vars

C9_Witness ==
    /\ replay.box # 0
    /\ replay.log # <<>>
    /\ lookup.id # 0
    /\ lookup.id \notin Participated
    /\ lookup.value = Absent

\* C10: no two live tensors own the same tape, and the tape a tensor owns
\* holds exactly the closures registered along its chain, in that order.
C10_LinearOwnership ==
    /\ \A t1, t2 \in tensors :
           (IsWithTape(t1) /\ IsWithTape(t2) /\ t1.tape.box = t2.tape.box) => t1 = t2
    /\ \A t \in tensors : IsWithTape(t) => t.tape.ops = calls[t.tape.box]

C10_Witness ==
    \E t \in tensors :
        /\ IsWithTape(t)
        /\ Len(t.tape.ops) >= 2
        /\ \A i \in DOMAIN t.tape.ops : t.tape.ops[i].kind = "sum_last_dim"

====
